---- MODULE Spec2Model ----
(***************************************************************************)
(* A model of src/src/emmett.ts: the Account aggregate (codec, fold,       *)
(* decision functions, Service) and the Emmett event store adapter, both   *)
(* running on Equinox Deciders over an append-only stream store.           *)
(*                                                                         *)
(* The Decider (load, decide, conditional append, bounded resync) and the  *)
(* stream store are @equinox-js packages whose source is not part of the   *)
(* repository; they are modelled from the design document (sections 4.4,   *)
(* 5, 6 and 7) and from the source comment on line 157.                    *)
(***************************************************************************)
EXTENDS Integers, Sequences, FiniteSets, TLC

(***************************************************************************)
(* Bounds of the model.                                                    *)
(***************************************************************************)
\* Events a run of Spec may commit in total, over all streams.
MaxCommits == 4
\* Largest amount a state or a command of SpecPure holds.
MaxPureAmount == 3
\* appendToStream calls the caller of SpecAdapter makes.
MaxAdapterCalls == 2
\* Longest event sequence folded under SpecFold.
MaxFoldLen == 3

\* Concurrent Decider invocations (transactions in flight at once).
Clients == {1, 2}
\* Account holder names of Spec.
Names == {"Alice", "Bob"}
\* Amounts deposited and withdrawn in Spec.
DepositAmounts == {1}
WithdrawAmounts == {1, 2}
\* The account every Service of Spec is created for.
TheAccount == "acc-1"
\* A second account, and a stream name that is no account identifier.
OtherAccount == "acc-2"
NotAnId == "not-an-id"

(***************************************************************************)
(* Program constants.                                                      *)
(***************************************************************************)
\* "Concurrency violation; aborting after 3 attempts" (Decider default).
MaxAttempts == 3

VARIABLES
    streams,    \* the store: stream id -> sequence of encoded events
    cl,         \* per Decider invocation: its position and locals
    run,        \* the sequential caller of SpecScenario and SpecAdapter
    pure        \* input and output of a pure function under SpecPure

vars == <<streams, cl, run, pure>>

\* The store addresses a stream by any string.
StreamIds == {TheAccount, OtherAccount, NotAnId}

AccountIds == {TheAccount, OtherAccount}

(***************************************************************************)
(* Events                                                                  *)
(***************************************************************************)
Opened(name) ==
    [type |-> "Opened", data |-> [status |-> "Open", name |-> name, amount |-> 0]]

Deposited(amount) == [type |-> "Deposited", data |-> [amount |-> amount]]

Withdrawn(amount) == [type |-> "Withdrawn", data |-> [amount |-> amount]]

(***************************************************************************)
(* JSON text, as the ordered list of the object's key/value pairs.  A pair  *)
(* whose key is "" stands for a data field that is no object text: the     *)
(* undefined of an absent payload, or text that is not valid JSON.         *)
(***************************************************************************)
JsonUndefined == <<<<"", "undefined">>>>

JsonInvalid == <<<<"", "not json">>>>

JsonEmptyObject == <<>>

IsObjectText(data) == data = <<>> \/ data[1][1] # ""

\* JSON.parse(text): the parsed object, or a SyntaxError thrown.
JSON_parse(text) ==
    [threw |-> ~IsObjectText(text), obj |-> IF IsObjectText(text) THEN text ELSE <<>>]

\* What decode gives: the event (or the undefined) returned, or a throw.
Decoded(value) == [threw |-> FALSE, value |-> value]

SyntaxError == [threw |-> TRUE, value |-> <<>>]

JsonKeys == <<"status", "name", "amount">>

RECURSIVE JSON_stringify_from(_, _)
JSON_stringify_from(obj, i) ==
    IF i > Len(JsonKeys) THEN <<>>
    ELSE IF JsonKeys[i] \in DOMAIN obj
         THEN <<<<JsonKeys[i], obj[JsonKeys[i]]>>>> \o JSON_stringify_from(obj, i + 1)
         ELSE JSON_stringify_from(obj, i + 1)

JSON_stringify(obj) == JSON_stringify_from(obj, 1)

\* The value obj[key] of a parsed object; every payload read here holds the key.
JSON_get(obj, key) ==
    LET i == CHOOSE j \in 1..Len(obj) : obj[j][1] = key IN obj[i][2]

(***************************************************************************)
(* Events.codec (and the identical top-level codec)                        *)
(***************************************************************************)
Events_codec_encode(event) ==
    [type |-> event.type,
     data |-> IF "data" \in DOMAIN event THEN JSON_stringify(event.data)
              ELSE JsonUndefined]

\* JSON.parse runs before the switch on the tag.  The value is <<event>> for
\* a known tag, <<>> for the "undefined" of an unknown one.
Events_codec_decode(rec) ==
    LET parsed == JSON_parse(IF rec.data = JsonUndefined THEN JsonEmptyObject
                             ELSE rec.data)
        data == parsed.obj
    IN  IF parsed.threw THEN SyntaxError
        ELSE CASE rec.type = "Opened" ->
                    Decoded(<<[type |-> rec.type,
                               data |-> [status |-> JSON_get(data, "status"),
                                         name |-> JSON_get(data, "name"),
                                         amount |-> JSON_get(data, "amount")]]>>)
               [] rec.type = "Deposited" ->
                    Decoded(<<[type |-> rec.type,
                               data |-> [amount |-> JSON_get(data, "amount")]]>>)
               [] rec.type = "Withdrawn" ->
                    Decoded(<<[type |-> rec.type,
                               data |-> [amount |-> JSON_get(data, "amount")]]>>)
               [] OTHER -> Decoded(<<>>)

(***************************************************************************)
(* Fold                                                                    *)
(***************************************************************************)
Fold_initial == [status |-> "NonExistent", name |-> "", amount |-> 0]

Fold_evolve_KeepName(state, event) ==
    CASE event.type = "Opened" ->
            [state EXCEPT !.status = "Open"]
      [] event.type = "Deposited" ->
            [state EXCEPT !.amount = state.amount + event.data.amount]
      [] event.type = "Withdrawn" ->
            [state EXCEPT !.amount = state.amount - event.data.amount]

Fold_evolve_PayloadStatus(state, event) ==
    CASE event.type = "Opened" ->
            [state EXCEPT !.status = event.data.status, !.name = event.data.name]
      [] event.type = "Deposited" ->
            [state EXCEPT !.amount = state.amount + event.data.amount]
      [] event.type = "Withdrawn" ->
            [state EXCEPT !.amount = state.amount - event.data.amount]

Fold_evolve_NoSubtract(state, event) ==
    CASE event.type = "Opened" ->
            [state EXCEPT !.status = "Open", !.name = event.data.name]
      [] event.type = "Deposited" ->
            [state EXCEPT !.amount = state.amount + event.data.amount]
      [] event.type = "Withdrawn" ->
            [state EXCEPT !.amount = state.amount + event.data.amount]

Fold_evolve(state, event) ==
    CASE event.type = "Opened" ->
            [state EXCEPT !.status = "Open", !.name = event.data.name]
      [] event.type = "Deposited" ->
            [state EXCEPT !.amount = state.amount + event.data.amount]
      [] event.type = "Withdrawn" ->
            [state EXCEPT !.amount = state.amount - event.data.amount]

RECURSIVE Fold_fold_FromInitial(_, _)
Fold_fold_FromInitial(state, events) ==
    IF events = <<>> THEN Fold_initial
    ELSE Fold_evolve(Fold_fold_FromInitial(state, SubSeq(events, 1, Len(events) - 1)),
                     events[Len(events)])

RECURSIVE Fold_fold(_, _)
Fold_fold(state, events) ==
    IF events = <<>> THEN state
    ELSE Fold_fold(Fold_evolve(state, Head(events)), Tail(events))

(***************************************************************************)
(* The adapter's category: the top-level codec, initialState, evolve and   *)
(* fold.  evolve differs from Fold.evolve by its default branch.           *)
(***************************************************************************)
codec_encode(event) ==
    [type |-> event.type,
     data |-> IF "data" \in DOMAIN event THEN JSON_stringify(event.data)
              ELSE JsonUndefined]

codec_decode(rec) ==
    LET parsed == JSON_parse(IF rec.data = JsonUndefined THEN JsonEmptyObject
                             ELSE rec.data)
        data == parsed.obj
    IN  IF parsed.threw THEN SyntaxError
        ELSE CASE rec.type = "Opened" ->
                    Decoded(<<[type |-> rec.type,
                               data |-> [status |-> JSON_get(data, "status"),
                                         name |-> JSON_get(data, "name"),
                                         amount |-> JSON_get(data, "amount")]]>>)
               [] rec.type = "Deposited" ->
                    Decoded(<<[type |-> rec.type,
                               data |-> [amount |-> JSON_get(data, "amount")]]>>)
               [] rec.type = "Withdrawn" ->
                    Decoded(<<[type |-> rec.type,
                               data |-> [amount |-> JSON_get(data, "amount")]]>>)
               [] OTHER -> Decoded(<<>>)

initialState == [status |-> "NonExistent", name |-> "", amount |-> 0]

evolve(state, event) ==
    CASE event.type = "Opened" ->
            [state EXCEPT !.status = "Open", !.name = event.data.name]
      [] event.type = "Deposited" ->
            [state EXCEPT !.amount = state.amount + event.data.amount]
      [] event.type = "Withdrawn" ->
            [state EXCEPT !.amount = state.amount - event.data.amount]
      [] OTHER -> state

RECURSIVE fold(_, _)
fold(state, events) ==
    IF events = <<>> THEN state
    ELSE fold(evolve(state, Head(events)), Tail(events))

(***************************************************************************)
(* The two categories: DynamoStoreCategory.create(context, "Account",      *)
(* codec, fold, initial, ...), of the Service and of the adapter.          *)
(***************************************************************************)
Categories == {"service", "adapter"}

RECURSIVE EncodeAll(_, _)
EncodeAll(cat, events) ==
    IF events = <<>> THEN <<>>
    ELSE <<IF cat = "service" THEN Events_codec_encode(Head(events))
           ELSE codec_encode(Head(events))>>
         \o EncodeAll(cat, Tail(events))

\* Decoding a stream skips the records the codec does not recognise.  The
\* records of a stream are the codec's own output, which JSON.parse accepts.
RECURSIVE DecodeAll(_, _)
DecodeAll(cat, recs) ==
    IF recs = <<>> THEN <<>>
    ELSE (IF cat = "service" THEN Events_codec_decode(Head(recs)).value
          ELSE codec_decode(Head(recs)).value)
         \o DecodeAll(cat, Tail(recs))

(***************************************************************************)
(* Decide: a decision is the event list returned, or the error thrown.     *)
(***************************************************************************)
Returns(events) == [ok |-> TRUE, events |-> events, error |-> ""]

Throws(message) == [ok |-> FALSE, events |-> <<>>, error |-> message]

NotOpenError == "Account is not open"

InsufficientError == "Insufficient funds"

ValidationErrors == {NotOpenError, InsufficientError}

Decide_open_IfNew(accountId, name, state) ==
    IF state.status = "Open" THEN Returns(<<>>) ELSE Returns(<<Opened(name)>>)

Decide_open(accountId, name, state) == Returns(<<Opened(name)>>)

Decide_deposit_Unchecked(amount, state) == Returns(<<Deposited(amount)>>)

Decide_deposit(amount, state) ==
    IF state.status # "Open" THEN Throws(NotOpenError)
    ELSE Returns(<<Deposited(amount)>>)

Decide_withdraw_NoFundsCheck(amount, state) ==
    IF state.status # "Open" THEN Throws(NotOpenError)
    ELSE Returns(<<Withdrawn(amount)>>)

Decide_withdraw_FundsFirst(amount, state) ==
    IF state.amount < amount THEN Throws(InsufficientError)
    ELSE IF state.status # "Open" THEN Throws(NotOpenError)
    ELSE Returns(<<Withdrawn(amount)>>)

Decide_withdraw_Strict(amount, state) ==
    IF state.status # "Open" THEN Throws(NotOpenError)
    ELSE IF state.amount <= amount THEN Throws(InsufficientError)
    ELSE Returns(<<Withdrawn(amount)>>)

Decide_withdraw(amount, state) ==
    IF state.status # "Open" THEN Throws(NotOpenError)
    ELSE IF state.amount < amount THEN Throws(InsufficientError)
    ELSE Returns(<<Withdrawn(amount)>>)

(***************************************************************************)
(* Commands: what a Service method (or the adapter) hands to the Decider.  *)
(***************************************************************************)
Cmd(kind, accountId, name, amount, events) ==
    [kind |-> kind, accountId |-> accountId, name |-> name,
     amount |-> amount, events |-> events]

NoCmd == Cmd("none", "", "", 0, <<>>)

OpenCmd(accountId, name) == Cmd("open", accountId, name, 0, <<>>)

DepositCmd(accountId, amount) == Cmd("deposit", accountId, "", amount, <<>>)

WithdrawCmd(accountId, amount) == Cmd("withdraw", accountId, "", amount, <<>>)

ReadCmd(accountId) == Cmd("read", accountId, "", 0, <<>>)

AppendCmd(streamName, events) == Cmd("append", streamName, "", 0, events)

(***************************************************************************)
(* Service: every method resolves its Decider and runs one transaction or  *)
(* query on it.  Service.create builds the resolver, which addresses the   *)
(* stream of the account the Service was created for.                      *)
(***************************************************************************)
Service_create(accountId) == [account |-> accountId]

Service_resolve(service, accountId) == service.account

Request(cat, stream, cmd) == [cat |-> cat, stream |-> stream, cmd |-> cmd]

Service_open(service, accountId, name) ==
    Request("service", Service_resolve(service, accountId), OpenCmd(accountId, name))

Service_deposit(service, accountId, amount) ==
    Request("service", Service_resolve(service, accountId), DepositCmd(accountId, amount))

Service_withdraw(service, accountId, amount) ==
    Request("service", Service_resolve(service, accountId), WithdrawCmd(accountId, amount))

Service_readBalance(service, accountId) ==
    Request("service", Service_resolve(service, accountId), ReadCmd(accountId))

appendToStream_decide_PerEvent(events, state) ==
    Returns(IF events = <<>> THEN <<>> ELSE <<Head(events)>>)

\* appendToStream's decision function, () => events: the whole batch.
appendToStream_decide(events, state) == Returns(events)

\* The decision function a command's method passes to decider.transact.
DecisionFunction(cmd, state) ==
    CASE cmd.kind = "open" -> Decide_open(cmd.accountId, cmd.name, state)
      [] cmd.kind = "deposit" -> Decide_deposit(cmd.amount, state)
      [] cmd.kind = "withdraw" -> Decide_withdraw(cmd.amount, state)
      [] cmd.kind = "append" -> appendToStream_decide(cmd.events, state)

(***************************************************************************)
(* The stream store and the Decider.                                       *)
(***************************************************************************)
Version(stream) == Len(streams[stream])

\* Loading: read every event of the stream, decode, fold from the initial state.
Category_load(cat, stream) ==
    [state |-> IF cat = "service"
               THEN Fold_fold(Fold_initial, DecodeAll(cat, streams[stream]))
               ELSE fold(initialState, DecodeAll(cat, streams[stream])),
     version |-> Version(stream)]

Store_accepts_Unconditional(current, expected) == TRUE

\* append(streamAddress, expectedVersion, events): the version precondition.
Store_accepts(current, expected) == current = expected

Decider_decide_Replay(cmd, state, attempt, previous) ==
    IF attempt > 1 THEN Returns(previous) ELSE DecisionFunction(cmd, state)

\* Deciding: the same decision function runs on the state of this attempt.
Decider_decide(cmd, state, attempt, previous) == DecisionFunction(cmd, state)

Decider_mayResync_OneMore(attempt) == attempt < MaxAttempts + 1

\* A conflict on attempt MaxAttempts ends the transaction.
Decider_mayResync(attempt) == attempt < MaxAttempts

ExhaustedError == "MaxResyncsExhausted"

Idle ==
    [pc |-> "idle", cat |-> "", cmd |-> NoCmd, stream |-> "", state |-> Fold_initial,
     version |-> 0, v0 |-> 0, events |-> <<>>, attempt |-> 0, appends |-> 0,
     result |-> ""]

InFlight(c) == cl[c].pc \in {"loading", "appending"}

\* Events a command can commit.
MaxEvents(cmd) ==
    CASE cmd.kind = "read" -> 0
      [] cmd.kind = "append" -> Len(cmd.events)
      [] OTHER -> 1

RECURSIVE SumOver(_, _)
SumOver(S, f) ==
    IF S = {} THEN 0
    ELSE LET x == CHOOSE y \in S : TRUE IN f[x] + SumOver(S \ {x}, f)

Committed == SumOver(StreamIds, [s \in StreamIds |-> Version(s)])

Pending ==
    SumOver(Clients,
            [c \in Clients |-> IF InFlight(c) THEN MaxEvents(cl[c].cmd) ELSE 0])

\* The bound of Spec: a call starts only while every event in flight fits.
WithinBound(request) ==
    Committed + Pending + MaxEvents(request.cmd) <= MaxCommits

\* decider.transact / decider.query: the invocation starts; its first step
\* is the read of the stream.
Decider_start(c, request) ==
    /\ cl[c].pc = "idle"
    /\ cl' = [cl EXCEPT ![c] =
                [Idle EXCEPT !.pc = "loading", !.cat = request.cat,
                             !.cmd = request.cmd,
                             !.stream = request.stream, !.attempt = 1]]
    /\ UNCHANGED streams

Decider_skipsAppend_Never(events) == FALSE

\* A decision of zero events commits as a no-op: no append is issued.
Decider_skipsAppend(events) == events = <<>>

\* Loading, then Deciding (a query renders the state instead).
Decider_load(c) ==
    /\ cl[c].pc = "loading"
    /\ LET me == cl[c]
           loaded == Category_load(me.cat, me.stream)
           first == IF me.attempt = 1 THEN loaded.version ELSE me.v0
           at == [me EXCEPT !.state = loaded.state, !.version = loaded.version,
                            !.v0 = first]
       IN  IF me.cmd.kind = "read"
           THEN cl' = [cl EXCEPT ![c] = [at EXCEPT !.pc = "done", !.result = "ok"]]
           ELSE LET d == Decider_decide(me.cmd, loaded.state, me.attempt, me.events)
                IN  cl' = [cl EXCEPT ![c] =
                             IF ~d.ok
                             THEN [at EXCEPT !.pc = "done", !.events = <<>>,
                                             !.result = d.error]
                             ELSE IF Decider_skipsAppend(d.events)
                             THEN [at EXCEPT !.pc = "done", !.events = <<>>,
                                             !.result = "ok"]
                             ELSE [at EXCEPT !.pc = "appending",
                                             !.events = d.events]]
    /\ UNCHANGED streams

\* Appending: accepted, or a conflict that resyncs or exhausts the attempts.
Decider_sync(c) ==
    /\ cl[c].pc = "appending"
    /\ LET me == [cl[c] EXCEPT !.appends = @ + 1]
       IN  IF Store_accepts(Version(me.stream), me.version)
           THEN /\ streams' = [streams EXCEPT ![me.stream] = @ \o EncodeAll(me.cat, me.events)]
                /\ cl' = [cl EXCEPT ![c] = [me EXCEPT !.pc = "done", !.result = "ok"]]
           ELSE /\ UNCHANGED streams
                /\ cl' = [cl EXCEPT ![c] =
                            IF Decider_mayResync(me.attempt)
                            THEN [me EXCEPT !.pc = "loading", !.attempt = @ + 1]
                            ELSE [me EXCEPT !.pc = "done", !.result = ExhaustedError]]

\* The caller takes the outcome; the invocation is over.
Decider_return(c) ==
    /\ cl[c].pc = "done"
    /\ cl' = [cl EXCEPT ![c] = Idle]
    /\ UNCHANGED streams

(***************************************************************************)
(* Spec: concurrent callers of one Service.                                *)
(***************************************************************************)
NoRun == [todo |-> <<>>, script |-> <<>>, outcomes |-> <<>>]

NoPure ==
    [fn |-> "none", state |-> Fold_initial, amount |-> 0, applied |-> FALSE,
     out |-> [ok |-> FALSE, events |-> <<>>, error |-> "not applied"],
     next |-> Fold_initial]

TheService == Service_create(TheAccount)

\* The invocation slot of the sequential caller.
Caller == CHOOSE c \in Clients : \A d \in Clients : c <= d

Init ==
    /\ streams = [s \in StreamIds |-> <<>>]
    /\ cl = [c \in Clients |-> Idle]
    /\ run = NoRun
    /\ pure = NoPure

Call(c, request) == WithinBound(request) /\ Decider_start(c, request)

CallOpen(c) ==
    /\ \E name \in Names : Call(c, Service_open(TheService, TheAccount, name))
    /\ UNCHANGED <<run, pure>>

CallDeposit(c) ==
    /\ \E a \in DepositAmounts : Call(c, Service_deposit(TheService, TheAccount, a))
    /\ UNCHANGED <<run, pure>>

CallWithdraw(c) ==
    /\ \E a \in WithdrawAmounts : Call(c, Service_withdraw(TheService, TheAccount, a))
    /\ UNCHANGED <<run, pure>>

CallReadBalance(c) ==
    /\ Call(c, Service_readBalance(TheService, TheAccount))
    /\ UNCHANGED <<run, pure>>

Load(c) == Decider_load(c) /\ UNCHANGED <<run, pure>>

Sync(c) == Decider_sync(c) /\ UNCHANGED <<run, pure>>

Return(c) == Decider_return(c) /\ UNCHANGED <<run, pure>>

Next ==
    \/ \E c \in Clients : CallOpen(c)
    \/ \E c \in Clients : CallDeposit(c)
    \/ \E c \in Clients : CallWithdraw(c)
    \/ \E c \in Clients : CallReadBalance(c)
    \/ \E c \in Clients : Load(c)
    \/ \E c \in Clients : Sync(c)
    \/ \E c \in Clients : Return(c)

Spec == Init /\ [][Next]_vars

(***************************************************************************)
(* SpecStreams: the Service created for one account is asked to act on     *)
(* either account; its methods pass the account they are given to the      *)
(* resolver.                                                               *)
(***************************************************************************)
StreamsOpen(c) ==
    /\ \E id \in AccountIds, name \in Names :
            Call(c, Service_open(TheService, id, name))
    /\ UNCHANGED <<run, pure>>

StreamsDeposit(c) ==
    /\ \E id \in AccountIds, a \in DepositAmounts :
            Call(c, Service_deposit(TheService, id, a))
    /\ UNCHANGED <<run, pure>>

StreamsWithdraw(c) ==
    /\ \E id \in AccountIds, a \in WithdrawAmounts :
            Call(c, Service_withdraw(TheService, id, a))
    /\ UNCHANGED <<run, pure>>

StreamsReadBalance(c) ==
    /\ \E id \in AccountIds : Call(c, Service_readBalance(TheService, id))
    /\ UNCHANGED <<run, pure>>

StreamsNext ==
    \/ StreamsOpen(Caller)
    \/ StreamsDeposit(Caller)
    \/ StreamsWithdraw(Caller)
    \/ StreamsReadBalance(Caller)
    \/ Load(Caller)
    \/ Sync(Caller)
    \/ Return(Caller)

SpecStreams == Init /\ [][StreamsNext]_vars

(***************************************************************************)
(* SpecScenario: the program's main scenario.  One caller awaits each      *)
(* Service call in turn: open, three deposits, a withdrawal, readBalance;  *)
(* the arguments are drawn around the ones the program uses.               *)
(***************************************************************************)
ScenarioNames == {"Alice", "Bob"}

ScenarioDeposits == {100, 200}

ScenarioWithdrawals == {50, 500}

Step(op, name, amount) == [op |-> op, name |-> name, amount |-> amount]

Script(name, a1, a2, a3, w) ==
    <<Step("open", name, 0), Step("deposit", "", a1), Step("deposit", "", a2),
      Step("deposit", "", a3), Step("withdraw", "", w), Step("readBalance", "", 0)>>

Scripts ==
    {Script(n, a1, a2, a3, w) :
        n \in ScenarioNames, a1 \in ScenarioDeposits, a2 \in ScenarioDeposits,
        a3 \in ScenarioDeposits, w \in ScenarioWithdrawals}

MainScript == Script("Alice", 100, 100, 200, 50)

StepRequest(step) ==
    CASE step.op = "open" -> Service_open(TheService, TheAccount, step.name)
      [] step.op = "deposit" -> Service_deposit(TheService, TheAccount, step.amount)
      [] step.op = "withdraw" -> Service_withdraw(TheService, TheAccount, step.amount)
      [] step.op = "readBalance" -> Service_readBalance(TheService, TheAccount)

\* What the awaited promise gives the caller (the state, for a query).
Outcome(me) == [result |-> me.result, state |-> me.state, version |-> me.version]

ScenarioInit ==
    /\ streams = [s \in StreamIds |-> <<>>]
    /\ cl = [c \in Clients |-> Idle]
    /\ run \in {[todo |-> s, script |-> s, outcomes |-> <<>>] : s \in Scripts}
    /\ pure = NoPure

ScenarioCall ==
    /\ run.todo # <<>>
    /\ Decider_start(Caller, StepRequest(Head(run.todo)))
    /\ run' = [run EXCEPT !.todo = Tail(@)]
    /\ UNCHANGED pure

ScenarioLoad == Decider_load(Caller) /\ UNCHANGED <<run, pure>>

ScenarioSync == Decider_sync(Caller) /\ UNCHANGED <<run, pure>>

ScenarioReturn ==
    /\ Decider_return(Caller)
    /\ run' = [run EXCEPT !.outcomes = Append(@, Outcome(cl[Caller]))]
    /\ UNCHANGED pure

ScenarioNext ==
    \/ ScenarioCall
    \/ ScenarioLoad
    \/ ScenarioSync
    \/ ScenarioReturn

SpecScenario == ScenarioInit /\ [][ScenarioNext]_vars

(***************************************************************************)
(* SpecAdapter: a caller of the event store adapter makes appendToStream   *)
(* calls one after the other.  The call starts its Decider transaction and *)
(* returns without awaiting it; the transaction runs on in the background. *)
(***************************************************************************)
\* AccountId.parse: the identifier a well-formed name renders, else a throw.
AccountId_parse(text) ==
    IF text \in AccountIds THEN [ok |-> TRUE, value |-> text]
    ELSE [ok |-> FALSE, value |-> ""]

StreamId_create(text) == text

IdentifierFormatError == "IdentifierFormatError"

MainBatch == <<Opened("John Do e"), Deposited(100), Deposited(140), Deposited(90)>>

AdapterBatches == {MainBatch, <<Deposited(15)>>, <<Deposited(100), Deposited(154)>>, <<>>}

AdapterNames == {TheAccount, OtherAccount, NotAnId}

AdapterCalls == [name : AdapterNames, events : AdapterBatches]

AdapterScripts == UNION {[1..n -> AdapterCalls] : n \in 1..MaxAdapterCalls}

MainCall == [name |-> TheAccount, events |-> MainBatch]

appendToStream_RawName(c, streamName, events) ==
    /\ Decider_start(c, Request("adapter", StreamId_create(streamName),
                                AppendCmd(streamName, events)))
    /\ run' = [run EXCEPT
                 !.todo = Tail(@),
                 !.outcomes = Append(@, [result |-> "ok",
                                         nextExpectedStreamVersion |-> Len(events)])]

appendToStream(c, streamName, events) ==
    IF AccountId_parse(streamName).ok
    THEN /\ Decider_start(c, Request("adapter", StreamId_create(streamName),
                                     AppendCmd(streamName, events)))
         /\ run' = [run EXCEPT
                      !.todo = Tail(@),
                      !.outcomes = Append(@, [result |-> "ok",
                                              nextExpectedStreamVersion |-> Len(events)])]
    ELSE /\ run' = [run EXCEPT
                      !.todo = Tail(@),
                      !.outcomes = Append(@, [result |-> IdentifierFormatError,
                                              nextExpectedStreamVersion |-> 0])]
         /\ UNCHANGED <<streams, cl>>

AdapterInit ==
    /\ streams = [s \in StreamIds |-> <<>>]
    /\ cl = [c \in Clients |-> Idle]
    /\ run \in {[todo |-> s, script |-> s, outcomes |-> <<>>] : s \in AdapterScripts}
    /\ pure = NoPure

AdapterCall ==
    /\ run.todo # <<>>
    /\ \E c \in Clients :
          appendToStream(c, Head(run.todo).name, Head(run.todo).events)
    /\ UNCHANGED pure

AdapterLoad(c) == Decider_load(c) /\ UNCHANGED <<run, pure>>

AdapterSync(c) == Decider_sync(c) /\ UNCHANGED <<run, pure>>

\* The transaction's promise settles; nothing awaits it.
AdapterSettle(c) == Decider_return(c) /\ UNCHANGED <<run, pure>>

\* readStream: the events array it returns is the empty one it creates.
readStream(streamName) ==
    LET events == <<>>
    IN  [currentStreamVersion |-> Len(events), events |-> events]

\* aggregateStream: getInitialState() and version 0; evolve and read unused.
aggregateStream(streamName, getInitialState) ==
    [currentStreamVersion |-> 0, state |-> getInitialState]

\* The caller, its appendToStream calls made, reads a stream back.
AdapterReadStream ==
    /\ run.todo = <<>>
    /\ \E name \in AccountIds :
          pure' = [fn |-> "readStream", name |-> name, out |-> readStream(name)]
    /\ UNCHANGED <<streams, cl, run>>

AdapterAggregateStream ==
    /\ run.todo = <<>>
    /\ \E name \in AccountIds :
          pure' = [fn |-> "aggregateStream", name |-> name,
                   out |-> aggregateStream(name, initialState)]
    /\ UNCHANGED <<streams, cl, run>>

AdapterNext ==
    \/ AdapterCall
    \/ AdapterReadStream
    \/ AdapterAggregateStream
    \/ \E c \in Clients : AdapterLoad(c)
    \/ \E c \in Clients : AdapterSync(c)
    \/ \E c \in Clients : AdapterSettle(c)

SpecAdapter == AdapterInit /\ [][AdapterNext]_vars

(***************************************************************************)
(* SpecPure: a decision function applied to a state drawn from the whole   *)
(* State type (statuses the fold never produces included).                 *)
(***************************************************************************)
Statuses == {"NonExistent", "Open", "Closed"}

PureAmounts == (0 - 1)..MaxPureAmount

PureStates == [status : Statuses, name : {"", "Alice"}, amount : PureAmounts]

NoDecision == [ok |-> FALSE, events |-> <<>>, error |-> "not applied"]

PureInit ==
    /\ streams = [s \in StreamIds |-> <<>>]
    /\ cl = [c \in Clients |-> Idle]
    /\ run = NoRun
    /\ pure \in [fn : {"deposit", "withdraw"}, state : PureStates,
                 amount : PureAmounts, applied : {FALSE},
                 out : {NoDecision}, next : {Fold_initial}]

\* The decision, and the state the returned events fold into.
PureDecide ==
    /\ ~pure.applied
    /\ LET d == IF pure.fn = "deposit" THEN Decide_deposit(pure.amount, pure.state)
                ELSE Decide_withdraw(pure.amount, pure.state)
       IN  pure' = [pure EXCEPT !.applied = TRUE, !.out = d,
                                !.next = Fold_fold(pure.state, d.events)]
    /\ UNCHANGED <<streams, cl, run>>

PureNext == PureDecide

SpecPure == PureInit /\ [][PureNext]_vars

(***************************************************************************)
(* SpecFold: the two folds applied to event sequences drawn from the       *)
(* Event type: whole, split at a point, and prefix by prefix.              *)
(***************************************************************************)
\* Opened events whose payload status and amount differ from what Decide.open
\* writes, the other two tags, and (for the top-level evolve, whose switch
\* has a default branch) an event of no known tag.
FoldEvents ==
    {Opened("Alice"),
     [type |-> "Opened", data |-> [status |-> "Closed", name |-> "Bob", amount |-> 7]],
     Deposited(1), Deposited(2), Withdrawn(1)}

UnknownEvent == [type |-> "Closed", data |-> [amount |-> 0]]

FoldEventsOf(which) ==
    IF which = "fold" THEN FoldEvents \cup {UnknownEvent} ELSE FoldEvents

SeqsUpTo(S, n) == UNION {[1..m -> S] : m \in 0..n}

FoldOf(which, state, events) ==
    IF which = "fold" THEN fold(state, events) ELSE Fold_fold(state, events)

InitialOf(which) == IF which = "fold" THEN initialState ELSE Fold_initial

FoldInputs ==
    {[fn |-> "fold", which |-> w, es |-> es, k |-> k, applied |-> FALSE,
      whole |-> InitialOf(w), split |-> InitialOf(w), states |-> <<>>] :
        w \in {"Fold.fold", "fold"}, es \in SeqsUpTo(FoldEvents \cup {UnknownEvent}, MaxFoldLen),
        k \in 0..MaxFoldLen}

FoldInit ==
    /\ streams = [s \in StreamIds |-> <<>>]
    /\ cl = [c \in Clients |-> Idle]
    /\ run = NoRun
    /\ pure \in {in \in FoldInputs :
                    /\ in.k <= Len(in.es)
                    /\ \A i \in 1..Len(in.es) : in.es[i] \in FoldEventsOf(in.which)}

\* fold(initial, es); fold(fold(initial, es[:k]), es[k:]); and the state after
\* each prefix of es (states[i + 1] is the state at version i).
FoldApply ==
    /\ ~pure.applied
    /\ LET w == pure.which
           es == pure.es
           n == Len(es)
       IN  pure' = [pure EXCEPT
                      !.applied = TRUE,
                      !.whole = FoldOf(w, InitialOf(w), es),
                      !.split = FoldOf(w, FoldOf(w, InitialOf(w), SubSeq(es, 1, pure.k)),
                                       SubSeq(es, pure.k + 1, n)),
                      !.states = [i \in 1..(n + 1) |->
                                    FoldOf(w, InitialOf(w), SubSeq(es, 1, i - 1))]]
    /\ UNCHANGED <<streams, cl, run>>

FoldNext == FoldApply

SpecFold == FoldInit /\ [][FoldNext]_vars

(***************************************************************************)
(* SpecCodec: the two codecs applied to events of the Event type (encode,  *)
(* then decode) and to records that some other writer left in the store    *)
(* (decode alone).                                                         *)
(***************************************************************************)
CodecEvents ==
    {[type |-> "Opened", data |-> d] :
        d \in [status : Statuses, name : {"", "Alice"}, amount : {0, 7}]}
    \cup {Deposited(a) : a \in {0 - 1, 0, 1, 100}}
    \cup {Withdrawn(a) : a \in {0 - 1, 0, 1, 100}}

\* Records of a tag the codec does not know, with every kind of data field.
ForeignRecords ==
    [type : {"Closed", "opened"},
     data : {JsonUndefined, JsonEmptyObject, JSON_stringify([amount |-> 1]), JsonInvalid}]

NoRecord == [type |-> "", data |-> JsonUndefined]

CodecInit ==
    /\ streams = [s \in StreamIds |-> <<>>]
    /\ cl = [c \in Clients |-> Idle]
    /\ run = NoRun
    /\ pure \in
          {[fn |-> "codec", which |-> w, kind |-> "roundtrip", stage |-> "event",
            event |-> e, rec |-> NoRecord, out |-> Decoded(<<>>)] :
              w \in {"Events.codec", "codec"}, e \in CodecEvents}
          \cup
          {[fn |-> "codec", which |-> w, kind |-> "foreign", stage |-> "record",
            event |-> Deposited(0), rec |-> r, out |-> Decoded(<<>>)] :
              w \in {"Events.codec", "codec"}, r \in ForeignRecords}

CodecEncode ==
    /\ pure.stage = "event"
    /\ pure' = [pure EXCEPT
                  !.stage = "record",
                  !.rec = IF pure.which = "codec" THEN codec_encode(pure.event)
                          ELSE Events_codec_encode(pure.event)]
    /\ UNCHANGED <<streams, cl, run>>

CodecDecode ==
    /\ pure.stage = "record"
    /\ pure' = [pure EXCEPT
                  !.stage = "decoded",
                  !.out = IF pure.which = "codec" THEN codec_decode(pure.rec)
                          ELSE Events_codec_decode(pure.rec)]
    /\ UNCHANGED <<streams, cl, run>>

CodecNext == CodecEncode \/ CodecDecode

SpecCodec == CodecInit /\ [][CodecNext]_vars

(***************************************************************************)
(* Reference readings of a stream's stored records, written without the    *)
(* codec and the fold: what the committed events mean.                     *)
(***************************************************************************)
RefAmountOf(rec) == rec.data[Len(rec.data)][2]

RefNameOf(rec) == rec.data[2][2]

RefStored(event) ==
    IF event.type = "Opened"
    THEN [type |-> "Opened",
          data |-> <<<<"status", event.data.status>>, <<"name", event.data.name>>,
                     <<"amount", event.data.amount>>>>]
    ELSE [type |-> event.type, data |-> <<<<"amount", event.data.amount>>>>]

RefStoredAll(events) == [i \in 1..Len(events) |-> RefStored(events[i])]

RefCount(recs, type) == Cardinality({i \in 1..Len(recs) : recs[i].type = type})

RECURSIVE RefSum(_, _, _)
RefSum(recs, type, n) ==
    IF n = 0 THEN 0
    ELSE RefSum(recs, type, n - 1)
         + (IF recs[n].type = type THEN RefAmountOf(recs[n]) ELSE 0)

RefBalance(recs) ==
    RefSum(recs, "Deposited", Len(recs)) - RefSum(recs, "Withdrawn", Len(recs))

RefIsOpen(recs) == RefCount(recs, "Opened") > 0

RefState(recs) ==
    LET opens == {i \in 1..Len(recs) : recs[i].type = "Opened"}
        last == CHOOSE i \in opens : \A j \in opens : j <= i
    IN  [status |-> IF opens = {} THEN "NonExistent" ELSE "Open",
         name |-> IF opens = {} THEN "" ELSE RefNameOf(recs[last]),
         amount |-> RefBalance(recs)]

\* The records a Decider invocation read at its latest Loading step (streams
\* are append-only, so they are the prefix of that length).
ReadBy(c) == SubSeq(streams[cl[c].stream], 1, cl[c].version)

Settled(c) == cl[c].pc = "done"

(***************************************************************************)
(* C2.  Two Deciders run Service.open concurrently on the same empty       *)
(* stream (both read version 0 first).                                     *)
(***************************************************************************)
OpenRaceSettled ==
    \A c \in Clients :
        /\ Settled(c)
        /\ cl[c].cmd.kind = "open"
        /\ cl[c].stream = TheAccount
        /\ cl[c].v0 = 0

\* C2 as stated: once both open transactions have settled, the stream holds
\* exactly one committed Opened event.
C2_ExactlyOneOpened ==
    OpenRaceSettled => RefCount(streams[TheAccount], "Opened") = 1

\* C2 as amended: once both open transactions have settled, both have
\* committed: the stream holds exactly two Opened events, the winner's at
\* version 0 and then the loser's, whose retry (attempt 2) read version 1 and
\* decided against the state that holds the winner's Opened event.
C2_BothOpenedCommit ==
    OpenRaceSettled =>
        \E w \in Clients : \E l \in Clients \ {w} :
            /\ cl[w].result = "ok" /\ cl[l].result = "ok"
            /\ cl[w].attempt = 1 /\ cl[w].version = 0
            /\ cl[l].attempt = 2 /\ cl[l].version = 1
            /\ cl[l].state = [status |-> "Open", name |-> cl[w].cmd.name, amount |-> 0]
            /\ streams[TheAccount] =
                   <<RefStored(Opened(cl[w].cmd.name)), RefStored(Opened(cl[l].cmd.name))>>
            /\ RefCount(streams[TheAccount], "Opened") = 2

C2_Witness ==
    /\ OpenRaceSettled
    /\ \E w \in Clients : \E l \in Clients \ {w} :
          cl[w].cmd.name # cl[l].cmd.name /\ cl[l].attempt = 2

(***************************************************************************)
(* C4.  Optimistic concurrency of the append.                              *)
(***************************************************************************)
\* The step is invocation c's append request.
Appends(c) == cl[c].pc = "appending" /\ cl'[c].appends = cl[c].appends + 1

\* C4: every change of a stream is the accepted append of one invocation,
\* submitted with the version that invocation read at its Loading step, which
\* is the stream's version at that moment, and it adds exactly the events
\* decided; an append whose expected version differs from the stream's current
\* version commits nothing and ends in a conflict (resync or exhaustion).
C4_AppendAtVersionRead ==
    [][ /\ \A s \in StreamIds :
              streams'[s] # streams[s] =>
                  \E c \in Clients :
                      /\ Appends(c)
                      /\ cl[c].stream = s
                      /\ cl[c].version = Len(streams[s])
                      /\ cl[c].state = RefState(streams[s])
                      /\ streams'[s] = streams[s] \o RefStoredAll(cl[c].events)
                      /\ cl'[c].pc = "done" /\ cl'[c].result = "ok"
        /\ \A c \in Clients :
              (Appends(c) /\ cl[c].version # Len(streams[cl[c].stream])) =>
                  /\ streams' = streams
                  /\ \/ cl'[c].pc = "loading"
                     \/ cl'[c].pc = "done" /\ cl'[c].result = ExhaustedError
      ]_vars

C4_Witness ==
    \E c \in Clients :
        /\ Settled(c) /\ cl[c].result = "ok"
        /\ cl[c].attempt = 2 /\ cl[c].events # <<>>
        /\ Len(streams[cl[c].stream]) = cl[c].version + 1

(***************************************************************************)
(* C7.  Retry after a conflict.                                            *)
(***************************************************************************)
\* What the business rules allow a command to emit on the stored records.
RefDecision(cmd, recs) ==
    CASE cmd.kind = "open" -> Returns(<<Opened(cmd.name)>>)
      [] cmd.kind = "deposit" ->
            IF RefIsOpen(recs) THEN Returns(<<Deposited(cmd.amount)>>)
            ELSE Throws(NotOpenError)
      [] cmd.kind = "withdraw" ->
            IF ~RefIsOpen(recs) THEN Throws(NotOpenError)
            ELSE IF RefBalance(recs) >= cmd.amount
                 THEN Returns(<<Withdrawn(cmd.amount)>>)
                 ELSE Throws(InsufficientError)

\* C7: an invocation that has had a conflict (attempt >= 2) has read the
\* stream again at a later version, holds the fold of those records, and the
\* events it submits are the ones the business rules give on them; when the
\* rules no longer hold it ends with the validation error and no events.
C7_RetryDecidesOnFreshState ==
    \A c \in Clients :
        (cl[c].attempt >= 2 /\ cl[c].pc \in {"appending", "done"}) =>
            LET me == cl[c]
                d == RefDecision(me.cmd, ReadBy(c))
            IN  /\ me.version > me.v0
                /\ me.state = RefState(ReadBy(c))
                /\ me.events = d.events
                /\ d.ok => me.result \in {"", "ok", ExhaustedError}
                /\ ~d.ok => me.pc = "done" /\ me.result = d.error

C7_Witness ==
    \E c \in Clients :
        /\ Settled(c)
        /\ cl[c].cmd.kind = "withdraw"
        /\ cl[c].attempt = 2
        /\ cl[c].result = InsufficientError
        /\ RefIsOpen(SubSeq(streams[cl[c].stream], 1, cl[c].v0))
        /\ RefBalance(SubSeq(streams[cl[c].stream], 1, cl[c].v0)) >= cl[c].cmd.amount

(***************************************************************************)
(* C8.  Bounded retries.                                                   *)
(***************************************************************************)
\* C8: an invocation never makes more than 3 attempts or 3 append requests;
\* it ends with the concurrency-exhausted error exactly when its third append
\* is rejected, that error is no validation error, and the step that raises
\* it commits nothing (none of its three appends was accepted).
C8_BoundedAttempts ==
    /\ [](\A c \in Clients :
            /\ cl[c].attempt <= 3
            /\ cl[c].appends <= cl[c].attempt
            /\ cl[c].result = ExhaustedError =>
                  /\ Settled(c)
                  /\ cl[c].attempt = 3 /\ cl[c].appends = 3
                  /\ cl[c].result \notin ValidationErrors
                  /\ cl[c].version < Len(streams[cl[c].stream]))
    /\ [][\A c \in Clients :
            /\ (cl'[c].result = ExhaustedError /\ cl[c].result # ExhaustedError) =>
                  /\ streams' = streams
                  /\ Appends(c)
                  /\ cl[c].version # Len(streams[cl[c].stream])
            /\ (Appends(c) /\ cl[c].attempt = 3
                  /\ cl[c].version # Len(streams[cl[c].stream])) =>
                  cl'[c].result = ExhaustedError /\ cl'[c].pc = "done"
         ]_vars

C8_Witness ==
    \E c \in Clients :
        /\ Settled(c)
        /\ cl[c].result = ExhaustedError
        /\ Len(streams[cl[c].stream]) >= cl[c].v0 + 3

(***************************************************************************)
(* C9.  Validation failures.                                               *)
(***************************************************************************)
FailsValidation(cmd, state) ==
    \/ cmd.kind \in {"deposit", "withdraw"} /\ state.status # "Open"
    \/ cmd.kind = "withdraw" /\ state.amount < cmd.amount

\* C9: when the state an attempt loaded fails the command's validation, the
\* invocation is over on that attempt with the validation error: it decided
\* no events, made no append request on that attempt (none at all when it is
\* the first attempt), and the step that raised the error left every stream
\* as it was.
C9_ValidationNotRetried ==
    /\ [](\A c \in Clients :
            (cl[c].pc \in {"appending", "done"}
                /\ FailsValidation(cl[c].cmd, cl[c].state)) =>
                /\ Settled(c)
                /\ cl[c].result \in ValidationErrors
                /\ cl[c].result = NotOpenError <=> cl[c].state.status # "Open"
                /\ cl[c].events = <<>>
                /\ cl[c].appends = cl[c].attempt - 1)
    /\ [][\A c \in Clients :
            (cl'[c].result \in ValidationErrors /\ cl[c].result \notin ValidationErrors) =>
                /\ streams' = streams
                /\ cl[c].pc = "loading" /\ cl'[c].pc = "done"
                /\ cl'[c].attempt = cl[c].attempt
                /\ cl'[c].appends = cl[c].appends
                /\ FailsValidation(cl'[c].cmd, cl'[c].state)
         ]_vars

C9_Witness ==
    \E c \in Clients : \E d \in Clients \ {c} :
        /\ Settled(c) /\ cl[c].cmd.kind = "withdraw"
        /\ cl[c].result = InsufficientError
        /\ cl[c].attempt = 1 /\ cl[c].appends = 0
        /\ Len(streams[cl[c].stream]) = cl[c].version
        /\ Settled(d) /\ cl[d].cmd.kind = "deposit" /\ cl[d].result = NotOpenError

(***************************************************************************)
(* C10.  readBalance.                                                      *)
(***************************************************************************)
\* C10: the state readBalance returns at version N is the fold of exactly the
\* first N committed events of the stream in commit order (status Open once an
\* Opened event is among them, the name of the last Opened, deposits minus
\* withdrawals), and no step of a readBalance invocation changes a stream or
\* makes an append request.
C10_ReadBalanceIsFold ==
    /\ [](\A c \in Clients :
            (cl[c].cmd.kind = "read" /\ Settled(c)) =>
                /\ cl[c].result = "ok"
                /\ cl[c].version <= Len(streams[cl[c].stream])
                /\ cl[c].state = RefState(ReadBy(c))
                /\ cl[c].appends = 0 /\ cl[c].events = <<>>)
    /\ [][\A c \in Clients :
            (cl[c] # cl'[c] /\ (cl[c].cmd.kind = "read" \/ cl'[c].cmd.kind = "read")) =>
                streams' = streams
         ]_vars

C10_Witness ==
    \E c \in Clients : \E d \in Clients \ {c} :
        /\ cl[c].cmd.kind = "read" /\ Settled(c)
        /\ cl[c].version = 4
        /\ cl[c].state.status = "Open" /\ cl[c].state.amount = 1
        /\ RefCount(ReadBy(c), "Withdrawn") = 1
        /\ Len(streams[cl[c].stream]) = 4

(***************************************************************************)
(* C1.  The main scenario.                                                 *)
(***************************************************************************)
ScenarioOver == run.todo = <<>> /\ cl[Caller].pc = "idle" /\ Len(run.outcomes) = 6

\* C1: from an empty stream, open("Alice"), deposit(100), deposit(100),
\* deposit(200), withdraw(50) awaited in turn all commit, one event each at
\* versions 0..4, and the readBalance that follows returns
\* {status: Open, name: "Alice", amount: 350} at stream version 5.
C1_MainScenario ==
    (run.script = MainScript /\ ScenarioOver) =>
        /\ \A i \in 1..5 :
              run.outcomes[i].result = "ok" /\ run.outcomes[i].version = i - 1
        /\ run.outcomes[6] =
              [result |-> "ok",
               state |-> [status |-> "Open", name |-> "Alice", amount |-> 350],
               version |-> 5]
        /\ Len(streams[TheAccount]) = 5
        /\ [i \in 1..5 |-> streams[TheAccount][i].type] =
              <<"Opened", "Deposited", "Deposited", "Deposited", "Withdrawn">>

C1_Witness ==
    /\ run.script = MainScript
    /\ ScenarioOver
    /\ run.outcomes[6].state.amount = 350

(***************************************************************************)
(* C3.  appendToStream commits its batch in one transaction.               *)
(***************************************************************************)
Starts(c) == cl[c].pc = "idle" /\ cl'[c].pc = "loading"

\* C3: an appendToStream call that passes the name check starts exactly one
\* Decider transaction, on the named stream, and changes no stream itself;
\* the decision of that transaction is the whole batch on every attempt; every
\* change of a stream is one accepted append that adds a whole batch, so the
\* version grows by the batch's length n >= 1 in one step; and the batch of 4
\* events on an empty stream, alone, is committed by a single append request
\* and gives version 4.
C3_WholeBatchOneTransaction ==
    /\ [](\A c \in Clients :
            (cl[c].cmd.kind = "append" /\ cl[c].pc \in {"appending", "done"}) =>
                /\ cl[c].events = cl[c].cmd.events
                /\ cl[c].appends <= cl[c].attempt)
    /\ [][ /\ (Len(run'.outcomes) > Len(run.outcomes)
                  /\ run'.outcomes[Len(run'.outcomes)].result = "ok") =>
                /\ streams' = streams
                /\ Cardinality({c \in Clients : cl'[c] # cl[c]}) = 1
                /\ \E c \in Clients :
                      /\ Starts(c)
                      /\ cl'[c].cmd.events = Head(run.todo).events
                      /\ cl'[c].stream = Head(run.todo).name
           /\ \A s \in StreamIds :
                streams'[s] # streams[s] =>
                    \E c \in Clients :
                        /\ Appends(c)
                        /\ Len(cl[c].cmd.events) >= 1
                        /\ Len(streams'[s]) = Len(streams[s]) + Len(cl[c].cmd.events)
                        /\ streams'[s] = streams[s] \o RefStoredAll(cl[c].cmd.events)
                        /\ cl'[c].pc = "done" /\ cl'[c].result = "ok"
         ]_vars
    /\ [](\A c \in Clients :
            (run.script = <<MainCall>> /\ Settled(c)) =>
                /\ cl[c].result = "ok"
                /\ cl[c].attempt = 1 /\ cl[c].appends = 1
                /\ Len(streams[TheAccount]) = 4
                /\ streams[TheAccount] = RefStoredAll(MainBatch))

C3_Witness ==
    \E c \in Clients :
        /\ run.script = <<MainCall>>
        /\ Settled(c)
        /\ Len(streams[TheAccount]) = 4

(***************************************************************************)
(* C5 and C6.  The decision functions on any state.                        *)
(***************************************************************************)
\* C5: deposit(amount) and withdraw(amount) decided on a state whose status is
\* not Open throw "Account is not open" and give no events, whatever the
\* amount and whatever name and amount the state holds.
C5_NotOpenAlwaysFails ==
    (pure.applied /\ pure.state.status # "Open") =>
        /\ ~pure.out.ok
        /\ pure.out.error = "Account is not open"
        /\ pure.out.events = <<>>
        /\ pure.next = pure.state

C5_Witness ==
    /\ pure.applied
    /\ pure.fn = "withdraw"
    /\ pure.state.status = "Closed"
    /\ pure.amount > pure.state.amount

\* C6: on an Open state, withdraw(amount) with amount > state.amount throws
\* "Insufficient funds" and gives no events; with amount = state.amount it
\* returns exactly one Withdrawn event of that amount, and folding the event
\* into the state leaves amount 0.
C6_WithdrawBoundary ==
    (pure.applied /\ pure.fn = "withdraw" /\ pure.state.status = "Open") =>
        /\ pure.amount > pure.state.amount =>
              /\ ~pure.out.ok
              /\ pure.out.error = "Insufficient funds"
              /\ pure.out.events = <<>>
        /\ pure.amount = pure.state.amount =>
              /\ pure.out.ok
              /\ pure.out.events =
                    <<[type |-> "Withdrawn", data |-> [amount |-> pure.amount]]>>
              /\ pure.next = [pure.state EXCEPT !.amount = 0]

C6_Witness ==
    /\ pure.applied
    /\ pure.fn = "withdraw"
    /\ pure.state.status = "Open"
    /\ pure.amount = pure.state.amount
    /\ pure.amount = MaxPureAmount
    /\ pure.next.amount = 0

(***************************************************************************)
(* C11.  fold over a concatenation.                                        *)
(***************************************************************************)
\* C11: for every event sequence es and split point 0 <= k <= Len(es),
\* fold(initial, es) equals fold(fold(initial, es[:k]), es[k:]), for Fold.fold
\* and for the top-level fold alike.
C11_FoldSplits ==
    (pure.fn = "fold" /\ pure.applied) =>
        /\ pure.whole = pure.split
        /\ pure.split = pure.states[Len(pure.es) + 1]

C11_Witness ==
    /\ pure.fn = "fold" /\ pure.applied
    /\ pure.which = "Fold.fold"
    /\ Len(pure.es) = MaxFoldLen
    /\ pure.k = 1
    /\ pure.es[1].type = "Opened"
    /\ pure.es[2].type = "Deposited"
    /\ pure.whole.amount > 0
    /\ pure.whole # pure.states[2]

(***************************************************************************)
(* C12.  A command acts on the stream of the account it names.             *)
(***************************************************************************)
\* C12: a step of a Service call issued for account B changes no stream but
\* B's, and what readBalance(B) loads is the fold of B's stream.
C12_CommandActsOnItsAccount ==
    [][ \A c \in Clients :
            (cl[c].pc # "idle" /\ cl'[c] # cl[c]) =>
                /\ \A s \in StreamIds :
                        s # cl[c].cmd.accountId => streams'[s] = streams[s]
                /\ (cl[c].cmd.kind = "read" /\ cl[c].pc = "loading") =>
                        cl'[c].state = RefState(streams[cl[c].cmd.accountId]) ]_vars

(***************************************************************************)
(* C13.  The version appendToStream returns.                               *)
(***************************************************************************)
Returned == run'.outcomes[Len(run'.outcomes)]

Returns_ok == Len(run'.outcomes) = Len(run.outcomes) + 1 /\ Returned.result = "ok"

\* C13: an appendToStream call of n events on a stream at version v (no
\* other transaction in flight) that succeeds returns
\* nextExpectedStreamVersion = v + n.
C13_ReturnsPostAppendVersion ==
    [][ (Returns_ok /\ \A c \in Clients : ~InFlight(c)) =>
            Returned.nextExpectedStreamVersion =
                Len(streams[Head(run.todo).name]) + Len(Head(run.todo).events) ]_vars

(***************************************************************************)
(* C14.  appendToStream and the stream name.                               *)
(***************************************************************************)
\* C14: a call whose name is no account identifier fails with the identifier
\* format error and starts no transaction and changes no stream; a call whose
\* name is one starts a transaction on the stream of exactly that name; and
\* every append of the adapter lands on the stream named in its call, never
\* on one whose name is no account identifier.
C14_NameParsedBeforeUse ==
    [][ /\ Len(run'.outcomes) = Len(run.outcomes) + 1 =>
              IF Head(run.todo).name \in {TheAccount, OtherAccount}
              THEN /\ Returned.result = "ok"
                   /\ \E c \in Clients :
                         /\ Starts(c)
                         /\ cl'[c].stream = Head(run.todo).name
                         /\ \A d \in Clients \ {c} : cl'[d] = cl[d]
              ELSE /\ Returned.result = IdentifierFormatError
                   /\ cl' = cl
                   /\ streams' = streams
        /\ \A s \in StreamIds :
              streams'[s] # streams[s] =>
                  /\ s \in {TheAccount, OtherAccount}
                  /\ \E c \in Clients : Appends(c) /\ cl[c].cmd.accountId = s
        /\ streams'[NotAnId] = <<>> ]_vars

C14_Witness ==
    /\ Len(run.script) = 2 /\ run.todo = <<>>
    /\ run.script[1].name = NotAnId
    /\ run.script[2].name = TheAccount
    /\ run.outcomes[1].result = IdentifierFormatError
    /\ run.outcomes[2].result = "ok"
    /\ streams[TheAccount] = RefStoredAll(run.script[2].events)
    /\ streams[NotAnId] = <<>>
    /\ \A c \in Clients : ~InFlight(c) /\ cl[c].attempt <= 1

(***************************************************************************)
(* C15.  A decision of zero events.                                        *)
(***************************************************************************)
EmptyBatch(c) == cl[c].cmd.kind = "append" /\ cl[c].cmd.events = <<>>

\* C15: the transaction of appendToStream(name, []) issues no append: each of
\* its steps leaves every stream unchanged, it goes from loading straight to
\* its end on its first attempt, and it ends ok at the version it loaded,
\* which is the stream's current version, never in a conflict.
C15_EmptyDecisionIsNoOp ==
    [][ \A c \in Clients :
            (EmptyBatch(c) /\ cl'[c] # cl[c]) =>
                /\ streams' = streams
                /\ cl'[c].appends = 0
                /\ cl'[c].pc \in {"done", "idle"}
                /\ cl'[c].pc = "done" =>
                      /\ cl'[c].result = "ok"
                      /\ cl'[c].attempt = 1
                      /\ cl'[c].version = Len(streams[cl[c].stream]) ]_vars

C15_Witness ==
    \E c \in Clients, d \in Clients :
        /\ EmptyBatch(c) /\ Settled(c) /\ cl[c].result = "ok"
        /\ cl[d].pc = "appending"
        /\ cl[d].stream = cl[c].stream
        /\ cl[d].version = cl[c].version

(***************************************************************************)
(* C16.  The codec: round trip, and records of an unknown tag.             *)
(***************************************************************************)
CodecDone == pure.fn = "codec" /\ pure.stage = "decoded"

\* The round-trip half alone.
CodecRoundTrips ==
    (CodecDone /\ pure.kind = "roundtrip") =>
        ~pure.out.threw /\ pure.out.value = <<pure.event>>

\* The unknown-tag half for the data fields that JSON.parse accepts.
CodecSkipsParsable ==
    (CodecDone /\ pure.kind = "foreign" /\ pure.rec.data # JsonInvalid) =>
        ~pure.out.threw /\ pure.out.value = <<>>

\* C16: decode(encode(e)) = e for every event e of the domain, and decode of
\* a record of an unknown tag returns undefined without raising, whatever
\* its data field holds (absent, a valid payload, or text that is no JSON).
C16_RoundTripAndSkip ==
    CodecDone =>
        /\ ~pure.out.threw
        /\ pure.out.value = IF pure.kind = "roundtrip" THEN <<pure.event>> ELSE <<>>

(***************************************************************************)
(* C17.  The adapter's read operations.                                    *)
(***************************************************************************)
\* C17: readStream(name) returns the events committed to the stream, in
\* order, with currentStreamVersion their count; aggregateStream(name, ...)
\* returns their fold from getInitialState() with the same version.
C17_ReadsReflectStream ==
    [][ (pure' # pure /\ pure'.fn \in {"readStream", "aggregateStream"}) =>
            /\ pure'.out.currentStreamVersion = Len(streams[pure'.name])
            /\ pure'.fn = "readStream" =>
                  RefStoredAll(pure'.out.events) = streams[pure'.name]
            /\ pure'.fn = "aggregateStream" =>
                  pure'.out.state = RefState(streams[pure'.name]) ]_vars

(***************************************************************************)
(* C18.  When the promise of appendToStream settles.                       *)
(***************************************************************************)
\* The calls on stream s that have resolved, and the events they passed.
ResolvedCalls(s) ==
    {i \in 1..Len(run.outcomes) :
        run.outcomes[i].result = "ok" /\ run.script[i].name = s}

ResolvedEvents(s) ==
    SumOver(ResolvedCalls(s), [i \in ResolvedCalls(s) |-> Len(run.script[i].events)])

\* C18: a call resolves only once its batch is committed, so the events of
\* the resolved calls are all in the stream; the transactions of calls made
\* one after the other are never in flight together; and none of them meets
\* a conflict (none goes beyond its first attempt).
C18_CallAwaitsTransaction ==
    /\ \A s \in StreamIds : Len(streams[s]) >= ResolvedEvents(s)
    /\ Cardinality({c \in Clients : InFlight(c)}) <= 1
    /\ \A c \in Clients : cl[c].attempt <= 1

\* The conflict alone: two awaited calls, and a transaction on a second attempt.
C18_NoConflict == \A c \in Clients : cl[c].attempt <= 1

(***************************************************************************)
(* C19.  The balance never goes below zero.                                *)
(***************************************************************************)
\* The balance of stream s at its committed version n.
BalanceAt(s, n) == RefBalance(SubSeq(streams[s], 1, n))

\* Two withdrawals that first read the same version, each affordable there
\* alone but not both.
RacingWithdrawals(c, d) ==
    /\ c # d
    /\ cl[c].cmd.kind = "withdraw" /\ cl[d].cmd.kind = "withdraw"
    /\ Settled(c) /\ Settled(d)
    /\ cl[c].stream = cl[d].stream
    /\ cl[c].v0 = cl[d].v0
    /\ RefIsOpen(SubSeq(streams[cl[c].stream], 1, cl[c].v0))
    /\ BalanceAt(cl[c].stream, cl[c].v0) >= cl[c].cmd.amount
    /\ BalanceAt(cl[c].stream, cl[c].v0) >= cl[d].cmd.amount
    /\ BalanceAt(cl[c].stream, cl[c].v0) < cl[c].cmd.amount + cl[d].cmd.amount

\* C19: in a stream written through Service.open, deposit and withdraw the
\* balance (deposits minus withdrawals) is >= 0 at every committed version,
\* under every interleaving of the callers; and of two concurrent
\* withdrawals affordable alone but not together at most one commits.
C19_BalanceNeverNegative ==
    /\ \A s \in StreamIds : \A n \in 0..Len(streams[s]) : BalanceAt(s, n) >= 0
    /\ \A c \in Clients, d \in Clients :
          RacingWithdrawals(c, d) => ~(cl[c].result = "ok" /\ cl[d].result = "ok")

C19_Witness ==
    \E c \in Clients, d \in Clients :
        /\ RacingWithdrawals(c, d)
        /\ cl[c].result = "ok" /\ cl[c].attempt = 1
        /\ cl[d].result = InsufficientError /\ cl[d].attempt = 2
        /\ BalanceAt(cl[c].stream, Len(streams[cl[c].stream])) = 0

(***************************************************************************)
(* C20.  The folded status.                                                *)
(***************************************************************************)
\* Whether the first i events of the folded sequence hold an Opened event.
OpenedWithin(i) == \E j \in 1..i : pure.es[j].type = "Opened"

\* C20: at every version i of a folded sequence the status is NonExistent
\* while no Opened event is among the first i events and Open from the first
\* one on; it is never Closed and never goes from Open back to NonExistent;
\* an Opened event sets the name to its own and leaves the amount as it was,
\* whatever status and amount its payload carries.
C20_StatusFollowsOpened ==
    (pure.fn = "fold" /\ pure.applied) =>
        \A i \in 0..Len(pure.es) :
            LET st == pure.states[i + 1]
            IN  /\ st.status = IF OpenedWithin(i) THEN "Open" ELSE "NonExistent"
                /\ st.status # "Closed"
                /\ i >= 1 =>
                      /\ pure.states[i].status = "Open" => st.status = "Open"
                      /\ pure.es[i].type = "Opened" =>
                            st = [status |-> "Open", name |-> pure.es[i].data.name,
                                  amount |-> pure.states[i].amount]

C20_Witness ==
    /\ pure.fn = "fold" /\ pure.applied
    /\ pure.which = "Fold.fold"
    /\ pure.es = <<Deposited(2), Opened("Alice"),
                   [type |-> "Opened",
                    data |-> [status |-> "Closed", name |-> "Bob", amount |-> 7]]>>
    /\ pure.states[2] = [status |-> "NonExistent", name |-> "", amount |-> 2]
    /\ pure.states[3] = [status |-> "Open", name |-> "Alice", amount |-> 2]
    /\ pure.whole = [status |-> "Open", name |-> "Bob", amount |-> 2]

====
